---- MODULE Spec2Model ----
(***************************************************************************)
(* GPU watchdog (gpu_watchdog.py): one invocation of main() loads the      *)
(* state file, runs process_group for FARM and then LAB, and saves the     *)
(* state file.  An external scheduler invokes main() again and again.      *)
(*                                                                         *)
(* Python values are represented as follows.  A dict is a function whose   *)
(* DOMAIN is its set of keys.  None and a missing key read by .get() are   *)
(* the empty tuple <<>> for reboot_scheduled_at, FALSE for the boolean     *)
(* flags (only their truthiness is ever read) and the .get() default 0     *)
(* for reboot_fail_count.  An isoformat() timestamp of minute t is <<t>>   *)
(* for reboot_scheduled_at (truthy) and t for last_checked.                *)
(* The probe value gpu_ok is one of the strings "True", "False", "None".   *)
(***************************************************************************)
EXTENDS Integers, Sequences, FiniteSets, TLC

\* ------------------------------------------------------------------ bounds
MaxInvocations == 4
MaxFailCount == 2
MaxFailingInvocations == 3

\* --------------------------------------------------------------- constants
REBOOT_DELAY == 2
CHECK_INTERVAL == 5
FAIL_THRESHOLD == 2

Groups == <<"FARM", "LAB">>
GroupSet == {Groups[i] : i \in 1..Len(Groups)}
Inventory == [g \in GroupSet |-> IF g = "FARM" THEN {"h1", "h2"} ELSE {"h3"}]
Hosts == UNION {Inventory[g] : g \in GroupSet}

None == <<>>

VARIABLES
  file,       \* the state file: [kind: missing | malformed | valid, data]
  state,      \* main()'s local `state` dict: group -> host -> record
  pc,         \* position in main(): start, a group name, save, done, aborted
  clock,      \* now(), in minutes
  loaded,     \* kind of the file seen by load_state in this invocation
  loads,      \* number of load_state calls of this invocation
  cycled,     \* groups whose process_group has run in this invocation
  prior,      \* group -> group_state at the start of its cycle (this invocation)
  obs,        \* group -> gpu_status returned by check_gpu (this invocation)
  sent,       \* send_slack calls of this invocation, in order
  reboots,    \* reboot_host calls of this invocation, in order
  failed,     \* hosts with a call of this invocation that did not succeed
  writes,     \* number of save_state calls of this invocation
  ep,         \* host -> calls counted since its last cycle with probe True
  noResp,     \* host -> length of the current run of no-response cycles
              \*         that began on a record with reboot_scheduled_at set
  failRun,    \* host -> length of the current run of probe False cycles
              \*         that began on a record with reboot_done true
  undelivered,\* <<host, kind>> of one notification that was sent and not
              \*         delivered, kept until the host's next cycle with
              \*         probe True; None when no such notification is followed
  again       \* hosts for which this invocation sent the followed
              \*         notification again

vars == <<file, state, pc, clock, loaded, loads, cycled, prior, obs, sent, reboots,
          failed, writes, ep, noResp, failRun, undelivered, again>>

\* ------------------------------------------------------------ dict helpers
EmptyDict == <<>>

Put(d, k, v) == [x \in (DOMAIN d) \cup {k} |-> IF x = k THEN v ELSE d[x]]

\* Mutant: key presence taken for truthiness.
GetFlagKeyPresent(d, k) == k \in DOMAIN d

GetFlag(d, k) == IF k \in DOMAIN d THEN d[k] ELSE FALSE

GetScheduled(d) ==
  IF "reboot_scheduled_at" \in DOMAIN d THEN d["reboot_scheduled_at"] ELSE None

\* Mutant: the count of a record without the key starts at 1.
GetFailCountFromOne(d) ==
  IF "reboot_fail_count" \in DOMAIN d THEN d["reboot_fail_count"] ELSE 1

GetFailCount(d) ==
  IF "reboot_fail_count" \in DOMAIN d THEN d["reboot_fail_count"] ELSE 0

Truthy(v) == v # None

\* --------------------------------------------------------------- records
\* Mutant: the reset forgets the persistent-failure latch.
CleanRecordNoLatch(now_ts) ==
  [k \in {"last_gpu_ok", "reboot_scheduled_at", "reboot_done",
          "reboot_fail_count", "reboot_failed_notified", "last_checked"} |->
     CASE k = "last_gpu_ok" -> TRUE
       [] k = "reboot_scheduled_at" -> None
       [] k = "reboot_done" -> FALSE
       [] k = "reboot_fail_count" -> 0
       [] k = "reboot_failed_notified" -> FALSE
       [] OTHER -> now_ts]

CleanRecord(now_ts) ==
  [k \in {"last_gpu_ok", "reboot_scheduled_at", "reboot_done",
          "reboot_fail_count", "reboot_failed_notified",
          "persistent_failure_notified", "last_checked"} |->
     CASE k = "last_gpu_ok" -> TRUE
       [] k = "reboot_scheduled_at" -> None
       [] k = "reboot_done" -> FALSE
       [] k = "reboot_fail_count" -> 0
       [] k = "reboot_failed_notified" -> FALSE
       [] k = "persistent_failure_notified" -> FALSE
       [] OTHER -> now_ts]

\* Mutant: the first-detection record does not keep the schedule.
ScheduledRecordNoMarker(now_ts) ==
  [k \in {"last_gpu_ok", "reboot_done", "last_checked"} |->
     CASE k = "last_gpu_ok" -> FALSE
       [] k = "reboot_done" -> FALSE
       [] OTHER -> now_ts]

ScheduledRecord(now_ts) ==
  [k \in {"last_gpu_ok", "reboot_scheduled_at", "reboot_done", "last_checked"} |->
     CASE k = "last_gpu_ok" -> FALSE
       [] k = "reboot_scheduled_at" -> <<now_ts + REBOOT_DELAY>>
       [] k = "reboot_done" -> FALSE
       [] OTHER -> now_ts]

Note(group, host, kind) == [group |-> group, host |-> host, kind |-> kind]

Reboot(host, delay) == [host |-> host, delay_minutes |-> delay]

\* ------------------------------------------------------- collaborator calls
\* What the outside does to one host's calls in a cycle: whether the group
\* has a webhook URL, what requests.post does, how the ansible command ends.
PostOutcomes == {"ok", "http_error", "exception"}
RunOutcomes == {"ok", "failed"}

Env(webhook_url, post, rc) == [webhook_url |-> webhook_url, post |-> post, rc |-> rc]

\* Mutant: requests.post is called outside any try block.
send_slackNoTry(msg, webhook_url, post) ==
  [call |-> [group |-> msg.group, host |-> msg.host, kind |-> msg.kind,
             status |-> IF ~webhook_url THEN "skipped"
                        ELSE IF post = "ok" THEN "ok" ELSE "error"],
   raised |-> webhook_url /\ post = "exception"]

\* send_slack: the call as made, with what became of it; it never raises.
send_slack(msg, webhook_url, post) ==
  [call |-> [group |-> msg.group, host |-> msg.host, kind |-> msg.kind,
             status |-> IF ~webhook_url THEN "skipped"
                        ELSE IF post = "ok" THEN "ok" ELSE "error"],
   raised |-> FALSE]

\* reboot_host: run() returns the CompletedProcess, which nobody reads.
reboot_host(host, delay_minutes, rc) ==
  [call |-> [host |-> host, delay_minutes |-> delay_minutes, rc |-> rc],
   raised |-> FALSE]

\* ------------------------------------------------- process_group, per host
\* Mutant: a responding host does not get reboot_done set.
Case1NoConfirm(hs, gpu_ok, now_ts, group, host, env) ==
  IF ~Truthy(GetScheduled(hs))
  THEN [rec |-> hs, notes |-> <<>>, raised |-> FALSE]
  ELSE IF gpu_ok = "None"
  THEN LET reboot_fail_count == GetFailCount(hs) + 1
           notify == reboot_fail_count >= FAIL_THRESHOLD
                     /\ ~GetFlag(hs, "reboot_failed_notified")
           s == send_slack(Note(group, host, "reboot_failed"), env.webhook_url, env.post)
           r1 == IF notify THEN Put(hs, "reboot_failed_notified", TRUE) ELSE hs
           r2 == Put(r1, "reboot_fail_count", reboot_fail_count)
           r3 == Put(r2, "last_gpu_ok", FALSE)
           r4 == Put(r3, "reboot_done", FALSE)
       IN IF notify /\ s.raised
          THEN [rec |-> hs, notes |-> <<s.call>>, raised |-> TRUE]
          ELSE [rec |-> Put(r4, "last_checked", now_ts),
                notes |-> IF notify THEN <<s.call>> ELSE <<>>,
                raised |-> FALSE]
  ELSE LET r2 == Put(hs, "reboot_fail_count", 0)
           r3 == Put(r2, "reboot_failed_notified", FALSE)
       IN [rec |-> Put(r3, "last_checked", now_ts), notes |-> <<>>, raised |-> FALSE]

\* A step result: rec is the dict host_state refers to (the same object as
\* group_state[host] until that entry is replaced), notes and boots are the
\* send_slack and reboot_host calls made, raised tells that a call raised
\* and the statements after it did not run.
Case1(hs, gpu_ok, now_ts, group, host, env) ==
  IF ~Truthy(GetScheduled(hs))
  THEN [rec |-> hs, notes |-> <<>>, raised |-> FALSE]
  ELSE IF gpu_ok = "None"
  THEN LET reboot_fail_count == GetFailCount(hs) + 1
           notify == reboot_fail_count >= FAIL_THRESHOLD
                     /\ ~GetFlag(hs, "reboot_failed_notified")
           s == send_slack(Note(group, host, "reboot_failed"), env.webhook_url, env.post)
           r1 == IF notify THEN Put(hs, "reboot_failed_notified", TRUE) ELSE hs
           r2 == Put(r1, "reboot_fail_count", reboot_fail_count)
           r3 == Put(r2, "last_gpu_ok", FALSE)
           r4 == Put(r3, "reboot_done", FALSE)
       IN IF notify /\ s.raised
          THEN [rec |-> hs, notes |-> <<s.call>>, raised |-> TRUE]
          ELSE [rec |-> Put(r4, "last_checked", now_ts),
                notes |-> IF notify THEN <<s.call>> ELSE <<>>,
                raised |-> FALSE]
  ELSE LET r1 == Put(hs, "reboot_done", TRUE)
           r2 == Put(r1, "reboot_fail_count", 0)
           r3 == Put(r2, "reboot_failed_notified", FALSE)
       IN [rec |-> Put(r3, "last_checked", now_ts), notes |-> <<>>, raised |-> FALSE]

\* Guard of line 304; its else branch (case 3) runs for True and for None.
IsGpuFail(gpu_ok) == gpu_ok # "True" /\ gpu_ok # "None"

\* Mutant: the persistent-failure notification ignores its latch.
Case2NoLatch(hs, present, now_ts, group, host, env) ==
  IF GetFlag(hs, "reboot_done")
  THEN LET s == send_slack(Note(group, host, "persistent"), env.webhook_url, env.post)
       IN [rec |-> Put(Put(hs, "persistent_failure_notified", TRUE),
                       "last_checked", now_ts),
           stored |-> TRUE, notes |-> <<s.call>>, boots |-> <<>>, raised |-> FALSE]
  ELSE IF ~Truthy(GetScheduled(hs))
  THEN LET b == reboot_host(host, REBOOT_DELAY, env.rc)
           s == send_slack(Note(group, host, "gpu_down"), env.webhook_url, env.post)
       IN [rec |-> ScheduledRecord(now_ts), stored |-> TRUE,
           notes |-> <<s.call>>, boots |-> <<b.call>>, raised |-> FALSE]
  ELSE [rec |-> hs, stored |-> present, notes |-> <<>>, boots |-> <<>>,
        raised |-> FALSE]

\* Mutant: the persistent-failure notification is sent, its latch not set.
Case2ForgetLatch(hs, present, now_ts, group, host, env) ==
  IF GetFlag(hs, "reboot_done")
  THEN LET notify == ~GetFlag(hs, "persistent_failure_notified")
           s == send_slack(Note(group, host, "persistent"), env.webhook_url, env.post)
       IN [rec |-> Put(hs, "last_checked", now_ts), stored |-> TRUE,
           notes |-> IF notify THEN <<s.call>> ELSE <<>>,
           boots |-> <<>>, raised |-> FALSE]
  ELSE IF ~Truthy(GetScheduled(hs))
  THEN LET b == reboot_host(host, REBOOT_DELAY, env.rc)
           s == send_slack(Note(group, host, "gpu_down"), env.webhook_url, env.post)
       IN [rec |-> ScheduledRecord(now_ts), stored |-> TRUE,
           notes |-> <<s.call>>, boots |-> <<b.call>>, raised |-> FALSE]
  ELSE [rec |-> hs, stored |-> present, notes |-> <<>>, boots |-> <<>>,
        raised |-> FALSE]

\* Mutant: the persistent-failure latch is set only when Slack took the message.
Case2LatchIfDelivered(hs, present, now_ts, group, host, env) ==
  IF GetFlag(hs, "reboot_done")
  THEN LET notify == ~GetFlag(hs, "persistent_failure_notified")
           s == send_slack(Note(group, host, "persistent"), env.webhook_url, env.post)
           r1 == IF notify /\ s.call.status = "ok"
                 THEN Put(hs, "persistent_failure_notified", TRUE) ELSE hs
       IN [rec |-> Put(r1, "last_checked", now_ts), stored |-> TRUE,
           notes |-> IF notify THEN <<s.call>> ELSE <<>>,
           boots |-> <<>>, raised |-> FALSE]
  ELSE IF ~Truthy(GetScheduled(hs))
  THEN LET b == reboot_host(host, REBOOT_DELAY, env.rc)
           s == send_slack(Note(group, host, "gpu_down"), env.webhook_url, env.post)
       IN [rec |-> ScheduledRecord(now_ts), stored |-> TRUE,
           notes |-> <<s.call>>, boots |-> <<b.call>>, raised |-> FALSE]
  ELSE [rec |-> hs, stored |-> present, notes |-> <<>>, boots |-> <<>>,
        raised |-> FALSE]

Case2(hs, present, now_ts, group, host, env) ==
  IF GetFlag(hs, "reboot_done")
  THEN LET notify == ~GetFlag(hs, "persistent_failure_notified")
           s == send_slack(Note(group, host, "persistent"), env.webhook_url, env.post)
           r1 == IF notify THEN Put(hs, "persistent_failure_notified", TRUE)
                 ELSE hs
       IN IF notify /\ s.raised
          THEN [rec |-> hs, stored |-> present, notes |-> <<s.call>>,
                boots |-> <<>>, raised |-> TRUE]
          ELSE [rec |-> Put(r1, "last_checked", now_ts), stored |-> TRUE,
                notes |-> IF notify THEN <<s.call>> ELSE <<>>,
                boots |-> <<>>, raised |-> FALSE]
  ELSE IF ~Truthy(GetScheduled(hs))
  THEN LET b == reboot_host(host, REBOOT_DELAY, env.rc)
           s == send_slack(Note(group, host, "gpu_down"), env.webhook_url, env.post)
       IN IF b.raised
          THEN [rec |-> hs, stored |-> present, notes |-> <<>>,
                boots |-> <<b.call>>, raised |-> TRUE]
          ELSE [rec |-> ScheduledRecord(now_ts), stored |-> TRUE,
                notes |-> <<s.call>>, boots |-> <<b.call>>, raised |-> s.raised]
  ELSE [rec |-> hs, stored |-> present, notes |-> <<>>, boots |-> <<>>,
        raised |-> FALSE]

\* Mutant: recovery is not announced.
Case3Silent(hs, present, now_ts, group, host, env) ==
  [rec |-> CleanRecord(now_ts), stored |-> TRUE, notes |-> <<>>, boots |-> <<>>,
   raised |-> FALSE]

Case3(hs, present, now_ts, group, host, env) ==
  LET notify == GetFlag(hs, "reboot_done")
      s == send_slack(Note(group, host, "recovered"), env.webhook_url, env.post)
  IN IF notify /\ s.raised
     THEN [rec |-> hs, stored |-> present, notes |-> <<s.call>>, boots |-> <<>>,
           raised |-> TRUE]
     ELSE [rec |-> CleanRecord(now_ts), stored |-> TRUE,
           notes |-> IF notify THEN <<s.call>> ELSE <<>>,
           boots |-> <<>>, raised |-> FALSE]

\* Mutant: at most one reboot per group is in flight; a host is not
\* rebooted while another host of the group has reboot_scheduled_at set.
ReconcileHostOneInFlight(group_state, gpu_status, now_ts, group, host, env) ==
  LET present == host \in DOMAIN group_state
      host_state == IF present THEN group_state[host] ELSE EmptyDict
      gpu_ok == IF host \in DOMAIN gpu_status THEN gpu_status[host] ELSE "None"
      busy == \E o \in (DOMAIN group_state) \ {host} :
                Truthy(GetScheduled(group_state[o]))
      c1 == Case1(host_state, gpu_ok, now_ts, group, host, env)
      c2 == IF c1.raised
            THEN [rec |-> c1.rec, stored |-> present, notes |-> <<>>,
                  boots |-> <<>>, raised |-> TRUE]
            ELSE IF IsGpuFail(gpu_ok)
            THEN IF busy /\ ~GetFlag(c1.rec, "reboot_done")
                 THEN [rec |-> c1.rec, stored |-> present, notes |-> <<>>,
                       boots |-> <<>>, raised |-> FALSE]
                 ELSE Case2(c1.rec, present, now_ts, group, host, env)
            ELSE Case3(c1.rec, present, now_ts, group, host, env)
  IN [gs |-> IF c2.stored THEN Put(group_state, host, c2.rec) ELSE group_state,
      notes |-> c1.notes \o c2.notes,
      boots |-> c2.boots,
      raised |-> c2.raised]

\* One iteration of the loop of line 267 for `host`.
ReconcileHost(group_state, gpu_status, now_ts, group, host, env) ==
  LET present == host \in DOMAIN group_state
      host_state == IF present THEN group_state[host] ELSE EmptyDict
      gpu_ok == IF host \in DOMAIN gpu_status THEN gpu_status[host] ELSE "None"
      c1 == Case1(host_state, gpu_ok, now_ts, group, host, env)
      c2 == IF c1.raised
            THEN [rec |-> c1.rec, stored |-> present, notes |-> <<>>,
                  boots |-> <<>>, raised |-> TRUE]
            ELSE IF IsGpuFail(gpu_ok)
            THEN Case2(c1.rec, present, now_ts, group, host, env)
            ELSE Case3(c1.rec, present, now_ts, group, host, env)
  IN [gs |-> IF c2.stored THEN Put(group_state, host, c2.rec) ELSE group_state,
      notes |-> c1.notes \o c2.notes,
      boots |-> c2.boots,
      raised |-> c2.raised]

\* The loop of line 267 over the hosts in `order`; envs gives each host's
\* Env.  An exception ends the loop.
RECURSIVE ReconcileAll(_, _, _, _, _, _)
ReconcileAll(acc, gpu_status, now_ts, group, order, envs) ==
  IF order = <<>> \/ acc.raised THEN acc
  ELSE LET r == ReconcileHost(acc.gs, gpu_status, now_ts, group, Head(order),
                              envs[Head(order)])
       IN ReconcileAll([gs |-> r.gs, notes |-> acc.notes \o r.notes,
                        boots |-> acc.boots \o r.boots, raised |-> r.raised],
                       gpu_status, now_ts, group, Tail(order), envs)

StartOfCycle(group_state) ==
  [gs |-> group_state, notes |-> <<>>, boots |-> <<>>, raised |-> FALSE]

\* Mutant: only the hosts that answered the probe are processed.
AllHostsProbedOnly(group_state, gpu_status) == DOMAIN gpu_status

\* all_hosts of line 264.
AllHosts(group_state, gpu_status) == (DOMAIN group_state) \cup (DOMAIN gpu_status)

Orders(S) ==
  {o \in [1..Cardinality(S) -> S] : \A i, j \in 1..Cardinality(S) : o[i] = o[j] => i = j}

ProbeResults(group) ==
  UNION {[R -> {"True", "False"}] : R \in SUBSET Inventory[group]}

GroupState(st, group) == IF group \in DOMAIN st THEN st[group] ELSE EmptyDict

\* ------------------------------------------------------------- state file
EmptyState == [g \in GroupSet |-> EmptyDict]

\* Records a state file may hold for a host: every full record of the
\* documented shape (load_state docstring), and the four-key record written
\* on first detection.
StoredRecords ==
  {[k \in {"last_gpu_ok", "reboot_scheduled_at", "reboot_done",
           "reboot_fail_count", "reboot_failed_notified",
           "persistent_failure_notified", "last_checked"} |->
      CASE k = "last_gpu_ok" -> a
        [] k = "reboot_scheduled_at" -> s
        [] k = "reboot_done" -> d
        [] k = "reboot_fail_count" -> c
        [] k = "reboot_failed_notified" -> f
        [] k = "persistent_failure_notified" -> p
        [] OTHER -> 0] :
     a \in BOOLEAN, s \in {None, <<REBOOT_DELAY>>}, d \in BOOLEAN,
     c \in 0..MaxFailCount, f \in BOOLEAN, p \in BOOLEAN}
  \cup {ScheduledRecord(0)}

MissingFile == [kind |-> "missing", data |-> EmptyDict]
MalformedFile == [kind |-> "malformed", data |-> EmptyDict]
ValidFile(st) == [kind |-> "valid", data |-> st]

\* State files present before the first invocation: none, an unparsable
\* one, the empty JSON object, or FARM tracking h1 with some record.
InitialFiles ==
  {MissingFile, MalformedFile, ValidFile(EmptyDict)}
  \cup {ValidFile([g \in GroupSet |->
                     IF g = "FARM" THEN [h \in {"h1"} |-> r] ELSE EmptyDict]) :
        r \in StoredRecords}

\* Mutant: an unparsable file is taken for a missing one.
load_stateCatchAll(f) ==
  CASE f.kind = "valid" -> [raised |-> FALSE, state |-> f.data]
    [] OTHER -> [raised |-> FALSE, state |-> EmptyState]

\* load_state: the dict returned, or raised = TRUE when json.load raises.
load_state(f) ==
  CASE f.kind = "missing" -> [raised |-> FALSE, state |-> EmptyState]
    [] f.kind = "malformed" -> [raised |-> TRUE, state |-> EmptyDict]
    [] OTHER -> [raised |-> FALSE, state |-> f.data]

\* save_state: json.dump of values that are already JSON values.
save_state(st) == ValidFile(st)

\* ---------------------------------------------------------- history (ghost)
NoCalls == [failed |-> 0, persist |-> 0, reboots |-> 0]

CountNotes(notes, host, kind) ==
  Cardinality({i \in 1..Len(notes) : notes[i].host = host /\ notes[i].kind = kind})

CountBoots(boots, host) ==
  Cardinality({i \in 1..Len(boots) : boots[i].host = host})

ProbeOf(gpu_status, host) ==
  IF host \in DOMAIN gpu_status THEN gpu_status[host] ELSE "None"

EpAfter(e, gpu_status, notes, boots, host) ==
  IF ProbeOf(gpu_status, host) = "True" THEN NoCalls
  ELSE [failed |-> e.failed + CountNotes(notes, host, "reboot_failed"),
        persist |-> e.persist + CountNotes(notes, host, "persistent"),
        reboots |-> e.reboots + CountBoots(boots, host)]

NoRespAfter(n, group_state, gpu_status, host) ==
  IF ProbeOf(gpu_status, host) # "None" THEN 0
  ELSE IF n > 0 THEN n + 1
  ELSE IF host \in DOMAIN group_state /\ Truthy(GetScheduled(group_state[host]))
  THEN 1 ELSE 0

FailRunAfter(n, group_state, gpu_status, host) ==
  IF ProbeOf(gpu_status, host) # "False" THEN 0
  ELSE IF n > 0 THEN n + 1
  ELSE IF host \in DOMAIN group_state /\ GetFlag(group_state[host], "reboot_done")
  THEN 1 ELSE 0

\* The notifications that may be followed after a cycle: the one followed
\* so far until its host is probed True; otherwise none, or any notification
\* of the cycle that was not delivered.
UndeliveredAfter(u, gpu_status, notes) ==
  IF u # None /\ ProbeOf(gpu_status, u[1]) # "True" THEN {u}
  ELSE {None} \cup
       {<<notes[k].host, notes[k].kind>> :
          k \in {j \in 1..Len(notes) :
                   /\ notes[j].status # "ok"
                   /\ ProbeOf(gpu_status, notes[j].host) # "True"}}

SentAgain(u, gpu_status, notes) ==
  IF u # None /\ ProbeOf(gpu_status, u[1]) # "True"
        /\ \E k \in 1..Len(notes) : notes[k].host = u[1] /\ notes[k].kind = u[2]
  THEN {u[1]} ELSE {}

\* ---------------------------------------------------------------- actions
InitWith(f) ==
  /\ file = f
  /\ state = EmptyDict
  /\ pc = "start"
  /\ clock = 0
  /\ loaded = "none"
  /\ loads = 0
  /\ cycled = {}
  /\ prior = EmptyDict
  /\ obs = EmptyDict
  /\ sent = <<>>
  /\ reboots = <<>>
  /\ failed = {}
  /\ writes = 0
  /\ ep = [h \in Hosts |-> NoCalls]
  /\ noResp = [h \in Hosts |-> 0]
  /\ failRun = [h \in Hosts |-> 0]
  /\ undelivered = None
  /\ again = {}

Init == \E f \in InitialFiles : InitWith(f)

InitEmpty == InitWith(MissingFile)

\* main(), line 373: state = load_state(); an exception ends the process.
LoadState ==
  /\ pc = "start"
  /\ LET r == load_state(file)
     IN /\ state' = r.state
        /\ pc' = IF r.raised THEN "aborted" ELSE Groups[1]
  /\ loaded' = file.kind
  /\ loads' = loads + 1
  /\ UNCHANGED <<file, clock, cycled, prior, obs, sent, reboots, failed, writes,
               ep, noResp, failRun, undelivered, again>>

\* Mutant: the state is saved after each group, which ends the run.
PcAfterGroupSaveEach(i, raised) ==
  IF raised THEN "aborted" ELSE "save"

\* The for loop of lines 376-380: the next group, then save_state; an
\* exception out of process_group leaves main().
PcAfterGroup(i, raised) ==
  IF raised THEN "aborted"
  ELSE IF i < Len(Groups) THEN Groups[i + 1] ELSE "save"

\* The Envs in which every call of the cycle succeeds.
SucceedingEnvs(group_state, gpu_status, now_ts, group, order) ==
  {[h \in {order[k] : k \in 1..Len(order)} |-> Env(TRUE, "ok", "ok")]}

\* The Envs in which some call that the cycle makes does not succeed: every
\* outcome of every call made (a host that makes no call has nothing to
\* vary), less the one in which all succeed.
FailingEnvs(group_state, gpu_status, now_ts, group, order) ==
  LET hosts == {order[k] : k \in 1..Len(order)}
      dry == ReconcileAll(StartOfCycle(group_state), gpu_status, now_ts, group,
                          order, [h \in hosts |-> Env(TRUE, "ok", "ok")])
      posting == {dry.notes[k].host : k \in 1..Len(dry.notes)}
      booting == {dry.boots[k].host : k \in 1..Len(dry.boots)}
  IN {e \in
        {[h \in hosts |->
            Env(webhook_url,
                IF h \in posting THEN post[h] ELSE "ok",
                IF h \in booting THEN rc[h] ELSE "ok")] :
         webhook_url \in IF posting = {} THEN {TRUE} ELSE BOOLEAN,
         post \in [posting -> PostOutcomes],
         rc \in [booting -> RunOutcomes]} :
      \E h \in hosts : \/ h \in posting /\ ~(e[h].webhook_url /\ e[h].post = "ok")
                       \/ h \in booting /\ e[h].rc # "ok"}

\* The calls as recorded in sent: what was asked for.
Requests(notes) ==
  [k \in 1..Len(notes) |-> Note(notes[k].group, notes[k].host, notes[k].kind)]

\* The calls as recorded in reboots: what was asked for.
Commands(boots) ==
  [k \in 1..Len(boots) |-> Reboot(boots[k].host, boots[k].delay_minutes)]

\* Hosts for which a call of the cycle did not succeed.
FailedCalls(notes, boots) ==
  {notes[k].host : k \in {j \in 1..Len(notes) : notes[j].status # "ok"}}
  \cup {boots[k].host : k \in {j \in 1..Len(boots) : boots[j].rc # "ok"}}

\* main(), line 377: process_group(group, state) for the group at pc, with
\* the collaborators doing what they are asked, or (failing) not all of it.
Cycle(i, failing) ==
  /\ pc = Groups[i]
  /\ LET group == Groups[i]
         group_state == GroupState(state, group)
         now_ts == clock
     IN \E gpu_status \in ProbeResults(group) :
          LET all_hosts == AllHosts(group_state, gpu_status)
          IN \E order \in Orders(all_hosts) :
              \E envs \in IF failing
                           THEN FailingEnvs(group_state, gpu_status, now_ts, group, order)
                           ELSE SucceedingEnvs(group_state, gpu_status, now_ts, group, order) :
               \E r \in {ReconcileAll(StartOfCycle(group_state), gpu_status,
                                      now_ts, group, order, envs)} :
                  /\ state' = Put(state, group, r.gs)
                  /\ sent' = sent \o Requests(r.notes)
                  /\ reboots' = reboots \o Commands(r.boots)
                  /\ failed' = failed \cup FailedCalls(r.notes, r.boots)
                  /\ prior' = Put(prior, group, group_state)
                  /\ obs' = Put(obs, group, gpu_status)
                  /\ ep' = [h \in Hosts |->
                              IF h \in all_hosts
                              THEN EpAfter(ep[h], gpu_status, r.notes, r.boots, h)
                              ELSE ep[h]]
                  /\ noResp' = [h \in Hosts |->
                                  IF h \in all_hosts
                                  THEN NoRespAfter(noResp[h], group_state, gpu_status, h)
                                  ELSE noResp[h]]
                  /\ failRun' = [h \in Hosts |->
                                   IF h \in all_hosts
                                   THEN FailRunAfter(failRun[h], group_state, gpu_status, h)
                                   ELSE failRun[h]]
                  /\ undelivered' \in UndeliveredAfter(undelivered, gpu_status, r.notes)
                  /\ again' = again \cup SentAgain(undelivered, gpu_status, r.notes)
                  /\ cycled' = IF r.raised THEN cycled ELSE cycled \cup {Groups[i]}
                  /\ pc' = PcAfterGroup(i, r.raised)
  /\ UNCHANGED <<file, clock, loaded, loads, writes>>

\* A cycle in which Slack and ansible do what they are asked.  Records and
\* requests do not depend on what the collaborators do (C20, C11), so the
\* claims about records and requests are checked with this action alone.
ProcessGroup(i) == Cycle(i, FALSE)

\* A cycle in which a webhook URL is missing, a post fails or a reboot
\* command fails.
ProcessGroupFailing(i) == Cycle(i, TRUE)

\* main(), line 380: save_state(state).
SaveState ==
  /\ pc = "save"
  /\ file' = save_state(state)
  /\ writes' = writes + 1
  /\ pc' = "done"
  /\ UNCHANGED <<state, clock, loaded, loads, cycled, prior, obs, sent, reboots,
               failed, ep, noResp, failRun, undelivered, again>>

\* The external scheduler starts main() again, CHECK_INTERVAL later, up to
\* max invocations in all.
NextInvocationWithin(max) ==
  /\ pc \in {"done", "aborted"}
  /\ clock < (max - 1) * CHECK_INTERVAL
  /\ clock' = clock + CHECK_INTERVAL
  /\ pc' = "start"
  /\ state' = EmptyDict
  /\ loaded' = "none"
  /\ loads' = 0
  /\ cycled' = {}
  /\ prior' = EmptyDict
  /\ obs' = EmptyDict
  /\ sent' = <<>>
  /\ reboots' = <<>>
  /\ failed' = {}
  /\ writes' = 0
  /\ again' = {}
  /\ UNCHANGED <<file, ep, noResp, failRun, undelivered>>

NextInvocation == NextInvocationWithin(MaxInvocations)

Next ==
  \/ LoadState
  \/ \E i \in 1..Len(Groups) : ProcessGroup(i)
  \/ SaveState
  \/ NextInvocation

Spec == Init /\ [][Next]_vars

SpecEmpty == InitEmpty /\ [][Next]_vars

NextFailing ==
  \/ LoadState
  \/ \E i \in 1..Len(Groups) : ProcessGroup(i)
  \/ \E i \in 1..Len(Groups) : ProcessGroupFailing(i)
  \/ SaveState
  \/ NextInvocationWithin(MaxFailingInvocations)

SpecFailing == InitEmpty /\ [][NextFailing]_vars


\* ================================================================ properties
\* Hosts reconciled by the cycle of group g in this invocation.
CycleHosts(g) == (DOMAIN prior[g]) \cup (DOMAIN obs[g])

\* host_state at the start of the cycle ({} when the host was not tracked).
PriorRec(g, h) == IF h \in DOMAIN prior[g] THEN prior[g][h] ELSE EmptyDict

Tracked(g, h) == h \in DOMAIN prior[g]

Probe(g, h) == ProbeOf(obs[g], h)

SentFor(g, h, kind) ==
  Cardinality({i \in 1..Len(sent) :
                 sent[i].group = g /\ sent[i].host = h /\ sent[i].kind = kind})

SentAny(g, h) ==
  Cardinality({i \in 1..Len(sent) : sent[i].group = g /\ sent[i].host = h})

BootsFor(h) == Cardinality({i \in 1..Len(reboots) : reboots[i].host = h})

\* The canonical clean record, last_checked left free.
IsCanonicalClean(r) ==
  /\ DOMAIN r = {"last_gpu_ok", "reboot_scheduled_at", "reboot_done",
                 "reboot_fail_count", "reboot_failed_notified",
                 "persistent_failure_notified", "last_checked"}
  /\ r["last_gpu_ok"] = TRUE
  /\ r["reboot_scheduled_at"] = <<>>
  /\ r["reboot_done"] = FALSE
  /\ r["reboot_fail_count"] = 0
  /\ r["reboot_failed_notified"] = FALSE
  /\ r["persistent_failure_notified"] = FALSE

\* C1: for a host whose stored record has reboot_scheduled_at set, the first
\* no-response cycle sends no "reboot failed" notification, the second
\* consecutive one sends exactly one and leaves reboot_fail_count = 2.
C1_Escalation ==
  \A g \in cycled : \A h \in CycleHosts(g) :
    /\ noResp[h] = 1 => SentFor(g, h, "reboot_failed") = 0
    /\ noResp[h] = 2 =>
         /\ SentFor(g, h, "reboot_failed") = 1
         /\ h \in DOMAIN state[g]
         /\ "reboot_fail_count" \in DOMAIN state[g][h]
         /\ state[g][h]["reboot_fail_count"] = 2

\* C2 (as claimed): a record with reboot_scheduled_at set and reboot_done
\* false, probed False, ends the cycle with reboot_done true and without a
\* "still unhealthy after reboot" notification in that cycle.
C2_NoPersistentInConfirmingCycle ==
  \A g \in cycled : \A h \in CycleHosts(g) :
    (/\ Truthy(GetScheduled(PriorRec(g, h)))
     /\ ~GetFlag(PriorRec(g, h), "reboot_done")
     /\ Probe(g, h) = "False")
    => /\ GetFlag(state[g][h], "reboot_done")
       /\ SentFor(g, h, "persistent") = 0

\* C2 (amended): such a cycle ends with reboot_done true and the persistent
\* latch set, and sends the "still unhealthy after reboot" notification in
\* that same cycle exactly when the latch was not set before the cycle.
C2_PersistentInConfirmingCycle ==
  \A g \in cycled : \A h \in CycleHosts(g) :
    (/\ Truthy(GetScheduled(PriorRec(g, h)))
     /\ ~GetFlag(PriorRec(g, h), "reboot_done")
     /\ Probe(g, h) = "False")
    => /\ GetFlag(state[g][h], "reboot_done")
       /\ GetFlag(state[g][h], "persistent_failure_notified")
       /\ SentFor(g, h, "persistent") =
            (IF GetFlag(PriorRec(g, h), "persistent_failure_notified") THEN 0 ELSE 1)

C2_Witness ==
  \E g \in cycled : \E h \in CycleHosts(g) :
    /\ Truthy(GetScheduled(PriorRec(g, h)))
    /\ ~GetFlag(PriorRec(g, h), "reboot_done")
    /\ ~GetFlag(PriorRec(g, h), "persistent_failure_notified")
    /\ Probe(g, h) = "False"
    /\ SentFor(g, h, "persistent") = 1

\* C3: whatever the prior record, a cycle with probe True leaves the
\* canonical clean record (last_checked aside).
C3_HealthyYieldsClean ==
  \A g \in cycled : \A h \in CycleHosts(g) :
    Probe(g, h) = "True" =>
      /\ h \in DOMAIN state[g]
      /\ IsCanonicalClean(state[g][h])

C3_Witness ==
  \E g \in cycled : \E h \in CycleHosts(g) :
    /\ Probe(g, h) = "True"
    /\ Truthy(GetScheduled(PriorRec(g, h)))
    /\ GetFlag(PriorRec(g, h), "persistent_failure_notified")
    /\ GetFlag(PriorRec(g, h), "reboot_failed_notified")
    /\ GetFailCount(PriorRec(g, h)) > 0
    /\ IsCanonicalClean(state[g][h])

\* C4 (as claimed): starting on a record with reboot_done true, the first
\* cycle with probe False sends "still unhealthy after reboot" exactly once,
\* every further consecutive one sends nothing and reboots nothing.
C4_PersistentExactlyOnce ==
  \A g \in cycled : \A h \in CycleHosts(g) :
    /\ failRun[h] = 1 => SentFor(g, h, "persistent") = 1
    /\ failRun[h] >= 2 => SentAny(g, h) = 0 /\ BootsFor(h) = 0

\* C4 (amended): the first such cycle sends the notification exactly once
\* when persistent_failure_notified was false in the stored record and not
\* at all when it was already true; it sends nothing else and reboots
\* nothing; every further consecutive cycle sends nothing and reboots nothing.
C4_PersistentOncePerLatch ==
  \A g \in cycled : \A h \in CycleHosts(g) :
    /\ failRun[h] = 1 =>
         /\ SentFor(g, h, "persistent") =
              (IF GetFlag(PriorRec(g, h), "persistent_failure_notified") THEN 0 ELSE 1)
         /\ SentAny(g, h) = SentFor(g, h, "persistent")
         /\ BootsFor(h) = 0
         /\ GetFlag(state[g][h], "persistent_failure_notified")
         /\ GetFlag(state[g][h], "reboot_done")
    /\ failRun[h] >= 2 => SentAny(g, h) = 0 /\ BootsFor(h) = 0

C4_Witness ==
  \E g \in cycled : \E h \in CycleHosts(g) :
    /\ failRun[h] = 1
    /\ GetFlag(PriorRec(g, h), "reboot_done")
    /\ ~GetFlag(PriorRec(g, h), "persistent_failure_notified")
    /\ SentFor(g, h, "persistent") = 1

\* C5: a record with reboot_done and persistent_failure_notified true,
\* probed True, becomes the canonical clean record and exactly one
\* "recovered after reboot" notification is sent in that cycle.
C5_EpisodeReset ==
  \A g \in cycled : \A h \in CycleHosts(g) :
    (/\ GetFlag(PriorRec(g, h), "reboot_done")
     /\ GetFlag(PriorRec(g, h), "persistent_failure_notified")
     /\ Probe(g, h) = "True")
    => /\ IsCanonicalClean(state[g][h])
       /\ SentFor(g, h, "recovered") = 1
       /\ SentAny(g, h) = 1

C5_Witness ==
  \E g \in cycled : \E h \in CycleHosts(g) :
    /\ GetFlag(PriorRec(g, h), "reboot_done")
    /\ GetFlag(PriorRec(g, h), "persistent_failure_notified")
    /\ Probe(g, h) = "True"
    /\ SentFor(g, h, "recovered") = 1
    /\ ~GetFlag(state[g][h], "persistent_failure_notified")

\* C6: first detection.  A host with no record or a clean record, probed
\* False, gets exactly one reboot with the configured delay of 2 minutes and
\* exactly one "GPU down, rebooting" notification, and its record then has
\* last_gpu_ok false, reboot_scheduled_at set and reboot_done false.
C6_FirstDetection ==
  \A g \in cycled : \A h \in CycleHosts(g) :
    (/\ ~Tracked(g, h) \/ IsCanonicalClean(PriorRec(g, h))
     /\ Probe(g, h) = "False")
    => /\ BootsFor(h) = 1
       /\ \E i \in 1..Len(reboots) : reboots[i].host = h /\ reboots[i].delay_minutes = 2
       /\ SentFor(g, h, "gpu_down") = 1
       /\ SentAny(g, h) = 1
       /\ h \in DOMAIN state[g]
       /\ {"last_gpu_ok", "reboot_scheduled_at", "reboot_done"} \subseteq DOMAIN state[g][h]
       /\ state[g][h]["last_gpu_ok"] = FALSE
       /\ state[g][h]["reboot_scheduled_at"] # <<>>
       /\ state[g][h]["reboot_done"] = FALSE

C6_Witness ==
  \E g \in cycled : \E h \in CycleHosts(g) :
    /\ ~Tracked(g, h)
    /\ Probe(g, h) = "False"
    /\ BootsFor(h) = 1
    /\ state[g][h]["reboot_scheduled_at"] = <<clock + 2>>

\* C7: a host with no record or a clean record, probed True, gets no
\* notification and no reboot and ends canonical clean; as the result is
\* again a clean record, repeating the cycle changes only last_checked.
C7_HealthyIdempotent ==
  \A g \in cycled : \A h \in CycleHosts(g) :
    (/\ ~Tracked(g, h) \/ IsCanonicalClean(PriorRec(g, h))
     /\ Probe(g, h) = "True")
    => /\ SentAny(g, h) = 0
       /\ BootsFor(h) = 0
       /\ IsCanonicalClean(state[g][h])
       /\ Tracked(g, h) =>
            \A k \in (DOMAIN state[g][h]) \ {"last_checked"} :
              state[g][h][k] = PriorRec(g, h)[k]

C7_Witness ==
  \E g \in cycled : \E h \in CycleHosts(g) :
    /\ Tracked(g, h)
    /\ IsCanonicalClean(PriorRec(g, h))
    /\ Probe(g, h) = "True"
    /\ PriorRec(g, h)["last_checked"] # state[g][h]["last_checked"]
    /\ clock >= 2 * CHECK_INTERVAL

\* C8: between two consecutive cycles of a host with probe True at most one
\* "still unhealthy after reboot" notification is sent.
C8_PersistentOncePerEpisode == \A h \in Hosts : ep[h].persist <= 1

\* C9: between two consecutive cycles of a host with probe True at most one
\* "reboot failed" notification is sent; no-response cycles after it send
\* none.
C9_RebootFailedOncePerEpisode == \A h \in Hosts : ep[h].failed <= 1

C9_Witness == \E h \in Hosts : ep[h].failed = 1 /\ noResp[h] = 2

\* C10: a missing state file gives an empty state and a full cycle; a
\* malformed one ends the invocation before any probe, reboot, notification
\* or write, the file left as it was.
C10_StoreLoadOutcomes ==
  /\ loaded = "malformed" =>
       /\ pc = "aborted"
       /\ file = MalformedFile
       /\ cycled = {} /\ obs = EmptyDict
       /\ sent = <<>> /\ reboots = <<>> /\ writes = 0
  /\ loaded = "missing" =>
       /\ pc # "aborted"
       /\ pc = Groups[1] => \A g \in GroupSet : state[g] = <<>>
       /\ pc = "done" => cycled = GroupSet /\ writes = 1 /\ file.kind = "valid"

C10_Witness == loaded = "malformed" /\ pc = "aborted" /\ clock > 0

C12_LoadOnceSaveOnce ==
  /\ loads <= 1 /\ writes <= 1
  /\ (cycled # {} \/ pc \in GroupSet \cup {"save", "done"}) => loads = 1
  /\ pc \in GroupSet \cup {"save"} => writes = 0
  /\ writes = 1 => pc = "done" /\ cycled = GroupSet
  /\ pc = "done" => writes = 1 /\ file = [kind |-> "valid", data |-> state]

C12_Witness ==
  /\ pc = "done" /\ loads = 1 /\ writes = 1 /\ cycled = GroupSet
  /\ DOMAIN state["FARM"] = {"h1", "h2"} /\ DOMAIN state["LAB"] = {"h3"}
  /\ clock > 0

\* C13: a record with reboot_scheduled_at set keeps it set through every
\* cycle whose probe is absent or False.
C13_MarkerSurvives ==
  \A g \in cycled : \A h \in CycleHosts(g) :
    (Truthy(GetScheduled(PriorRec(g, h))) /\ Probe(g, h) # "True")
    => /\ h \in DOMAIN state[g]
       /\ Truthy(GetScheduled(state[g][h]))

\* C14: between two consecutive cycles of a host with probe True at most
\* one reboot is issued for it.
C14_OneRebootPerEpisode == \A h \in Hosts : ep[h].reboots <= 1

\* C15 (as claimed): "recovered after reboot" is sent only if the record at
\* the start of the cycle had reboot_done true; a record with
\* reboot_scheduled_at set and reboot_done false, probed True, is reset to
\* clean without that notification.
C15_RecoveredOnlyAfterConfirmed ==
  \A g \in cycled : \A h \in CycleHosts(g) :
    /\ SentFor(g, h, "recovered") > 0 => GetFlag(PriorRec(g, h), "reboot_done")
    /\ (/\ Truthy(GetScheduled(PriorRec(g, h)))
        /\ ~GetFlag(PriorRec(g, h), "reboot_done")
        /\ Probe(g, h) = "True")
       => IsCanonicalClean(state[g][h]) /\ SentFor(g, h, "recovered") = 0

\* C15 (amended): "recovered after reboot" is sent, once, only if the record
\* at the start of the cycle had reboot_done true or had reboot_scheduled_at
\* set with the probe True; a record with reboot_scheduled_at set and
\* reboot_done false, probed True, is reset to clean with exactly one such
\* notification.
C15_RecoveredWhenConfirmedInCycle ==
  \A g \in cycled : \A h \in CycleHosts(g) :
    /\ SentFor(g, h, "recovered") > 0 =>
         /\ SentFor(g, h, "recovered") = 1
         /\ \/ GetFlag(PriorRec(g, h), "reboot_done")
            \/ Truthy(GetScheduled(PriorRec(g, h))) /\ Probe(g, h) = "True"
    /\ (/\ Truthy(GetScheduled(PriorRec(g, h)))
        /\ ~GetFlag(PriorRec(g, h), "reboot_done")
        /\ Probe(g, h) = "True")
       => /\ IsCanonicalClean(state[g][h])
          /\ SentFor(g, h, "recovered") = 1
          /\ SentAny(g, h) = 1

C15_Witness ==
  \E g \in cycled : \E h \in CycleHosts(g) :
    /\ Truthy(GetScheduled(PriorRec(g, h)))
    /\ ~GetFlag(PriorRec(g, h), "reboot_done")
    /\ Probe(g, h) = "True"
    /\ SentFor(g, h, "recovered") = 1
    /\ IsCanonicalClean(state[g][h])

\* The hosts' cycle of group g run again from the state at its start, in
\* the given order, every call succeeding.
Rerun(g, order) ==
  ReconcileAll(StartOfCycle(prior[g]), obs[g], clock, g, order,
               [h \in CycleHosts(g) |-> Env(TRUE, "ok", "ok")])

Count(seq, x) == Cardinality({i \in 1..Len(seq) : seq[i] = x})

SameMultiset(s, t) ==
  \A x \in {s[i] : i \in 1..Len(s)} \cup {t[i] : i \in 1..Len(t)} :
    Count(s, x) = Count(t, x)

SentOfGroup(g) == SelectSeq(sent, LAMBDA n : n.group = g)

RebootsOfGroup(g) == SelectSeq(reboots, LAMBDA b : b.host \in CycleHosts(g))

\* The group whose cycle has just ended.
JustCycled ==
  {g \in cycled : \E i \in 1..Len(Groups) : Groups[i] = g /\ pc = PcAfterGroup(i, FALSE)}

\* C16: for the group state and the probe result of the cycle that has just
\* ended, every order of processing the hosts gives the records that were
\* stored and the same multiset of notifications and of reboots that were
\* requested.
C16_OrderIndependence ==
  \A g \in JustCycled : \A order \in Orders(CycleHosts(g)) :
    \E r \in {Rerun(g, order)} :
      /\ r.gs = state[g]
      /\ SameMultiset(Requests(r.notes), SentOfGroup(g))
      /\ SameMultiset(Commands(r.boots), RebootsOfGroup(g))

C16_Witness ==
  /\ "FARM" \in cycled
  /\ CycleHosts("FARM") = {"h1", "h2"}
  /\ Len(sent) >= 2 /\ sent[1].host = "h2" /\ sent[2].host = "h1"
  /\ sent[1].kind # sent[2].kind
  /\ BootsFor("h1") + BootsFor("h2") = 1

\* One reconciliation of host h from the state at the start of g's cycle.
Once(g, h) == ReconcileHost(prior[g], obs[g], clock, g, h, Env(TRUE, "ok", "ok"))

\* C17: after the cycle of a group the stored hosts are the hosts stored
\* before together with the probed hosts; each has the record and the calls
\* of exactly one reconciliation of (its stored record, its probe value); a
\* host stored before the invocation is in the file written at its end.
C17_EveryHostOnce ==
  \A g \in cycled :
    /\ DOMAIN state[g] = (DOMAIN prior[g]) \cup (DOMAIN obs[g])
    /\ \A h \in CycleHosts(g) :
         \E r \in {Once(g, h)} :
           /\ state[g][h] = r.gs[h]
           /\ SentAny(g, h) = Len(r.notes)
           /\ BootsFor(h) = Len(r.boots)
    /\ pc = "done" =>
         /\ file.kind = "valid"
         /\ g \in DOMAIN file.data
         /\ DOMAIN prior[g] \subseteq DOMAIN file.data[g]

C17_Witness ==
  /\ pc = "done"
  /\ Tracked("FARM", "h1") /\ Probe("FARM", "h1") = "None"
  /\ "h1" \in DOMAIN file.data["FARM"]
  /\ file.data["FARM"]["h1"]["last_checked"] = clock
  /\ ~Tracked("FARM", "h2") /\ Probe("FARM", "h2") = "False"
  /\ "h2" \in DOMAIN file.data["FARM"]
  /\ BootsFor("h2") = 1

\* The records held in memory and in the state file.
StoredNow ==
  {state[g][h] : <<g, h>> \in
     {p \in (DOMAIN state) \X Hosts : p[2] \in DOMAIN state[p[1]]}}
  \cup
  (IF file.kind = "valid"
   THEN {file.data[g][h] : <<g, h>> \in
           {p \in (DOMAIN file.data) \X Hosts : p[2] \in DOMAIN file.data[p[1]]}}
   ELSE {})

\* C18: from an empty store, a stored record with reboot_done true has
\* reboot_scheduled_at set, persistent_failure_notified true,
\* reboot_fail_count 0 and reboot_failed_notified false.
C18_ConfirmedRebootIsLatched ==
  \A rec \in StoredNow :
    GetFlag(rec, "reboot_done") =>
      /\ Truthy(GetScheduled(rec))
      /\ GetFlag(rec, "persistent_failure_notified")
      /\ GetFailCount(rec) = 0
      /\ ~GetFlag(rec, "reboot_failed_notified")

C18_Witness ==
  /\ pc = "done"
  /\ \E h \in DOMAIN file.data["FARM"] :
       /\ GetFlag(file.data["FARM"][h], "reboot_done")
       /\ SentFor("FARM", h, "persistent") = 1

AllEnvs ==
  {Env(webhook_url, post, rc) :
     webhook_url \in BOOLEAN, post \in PostOutcomes, rc \in RunOutcomes}

\* The record stored for a host, and the calls asked for, are the same
\* whatever becomes of the calls.
C20_RecordIgnoresDelivery ==
  \A g \in cycled : \A h \in CycleHosts(g) : \A e \in AllEnvs :
    \E r \in {ReconcileHost(prior[g], obs[g], clock, g, h, e)} :
      /\ ~r.raised
      /\ r.gs[h] = state[g][h]
      /\ Len(r.notes) = SentAny(g, h)
      /\ Len(r.boots) = BootsFor(h)

\* No notification that was not delivered is sent again for the host before
\* its next cycle with probe True.
C20_UndeliveredNeverSentAgain == again = {}

\* C20: the record stored for a host does not depend on what became of the
\* notification, and a notification that was not delivered is not sent
\* again in a later cycle of the same episode.
C20_DeliveryIsNotRetried ==
  /\ C20_RecordIgnoresDelivery
  /\ C20_UndeliveredNeverSentAgain
====
